---- MODULE Spec2Model ----
(***************************************************************************)
(* Model of court-data-fetcher/scraper/delhi_high_court.py                 *)
(* (class DelhiHighCourtScraper).                                          *)
(*                                                                         *)
(* Python strings are sequences of one-character strings, so that the      *)
(* regular expressions, substring tests and date formats of the source are *)
(* computed character by character.  An Optional value is a sequence of    *)
(* length 0 (None) or 1.  A mark-up tag inside a document is one element   *)
(* of the sequence, a string that starts with "<".                         *)
(***************************************************************************)
EXTENDS Integers, Sequences, FiniteSets, TLC

VARIABLES
    op,        \* the operation the state belongs to ("none" before any call)
    pc,        \* position inside the operation
    arg,       \* the operation's input
    ret,       \* the value returned (meaningful when pc = "done")
    raised,    \* TRUE iff an exception left the operation
    requests,  \* network requests issued by the current call, in order
    ran,       \* extraction strategies attempted by the current call, in order
    padYear    \* platform: TRUE iff strftime("%Y") pads a year below 1000 to
               \* four digits (the C library decides; fixed for the process)

vars == <<op, pc, arg, ret, raised, requests, ran, padYear>>

None == <<>>
Some(x) == <<x>>

\* a function body without its try/except: the exception leaves the function
NoTryExcept(body, fallback) == body

\* try: body  except Exception: return fallback
TryExcept(body, fallback) ==
  IF body.raises THEN [raises |-> FALSE, value |-> fallback] ELSE body

Raised == [raises |-> TRUE, value |-> None]
Returned(v) == [raises |-> FALSE, value |-> v]

(***************************************************************************)
(* Characters                                                              *)
(***************************************************************************)
UpperSeq ==
  <<"A","B","C","D","E","F","G","H","I","J","K","L","M",
    "N","O","P","Q","R","S","T","U","V","W","X","Y","Z">>
LowerSeq ==
  <<"a","b","c","d","e","f","g","h","i","j","k","l","m",
    "n","o","p","q","r","s","t","u","v","w","x","y","z">>

Upper == {UpperSeq[i] : i \in 1..26}
Lowercase == {LowerSeq[i] : i \in 1..26}
Digit == {"0","1","2","3","4","5","6","7","8","9"}
\* \s of the re module, restricted to the characters the inputs use
WS == {" ", "\n", "\t"}
\* [A-Z\.] without and with re.IGNORECASE
UpperDot == Upper \cup {"."}
LetterDot == Upper \cup Lowercase \cup {"."}

\* str.lower() on one character
LowerChar(c) ==
  IF c \in Upper THEN LowerSeq[CHOOSE i \in 1..26 : UpperSeq[i] = c] ELSE c

\* str.lower()
lower(s) == [i \in 1..Len(s) |-> LowerChar(s[i])]

\* the value of a digit character
DigitVal(c) ==
  CASE c = "0" -> 0 [] c = "1" -> 1 [] c = "2" -> 2 [] c = "3" -> 3
    [] c = "4" -> 4 [] c = "5" -> 5 [] c = "6" -> 6 [] c = "7" -> 7
    [] c = "8" -> 8 [] c = "9" -> 9

(***************************************************************************)
(* Pieces of regular expressions.  Every repetition of the source's        *)
(* patterns is followed by a character outside its own class, so the       *)
(* greedy span is the only way the pattern can match.                      *)
(***************************************************************************)
\* C* from position i: the first position >= i whose character is not in C
RECURSIVE SpanEnd(_, _, _)
SpanEnd(s, i, C) ==
  IF i <= Len(s) /\ s[i] \in C THEN SpanEnd(s, i + 1, C) ELSE i

\* the literal character c at position i
CharAt(s, i, c) == i >= 1 /\ i <= Len(s) /\ s[i] = c

\* the literal character c at position i, under re.IGNORECASE
CharAtI(s, i, c) == i >= 1 /\ i <= Len(s) /\ LowerChar(s[i]) = LowerChar(c)

\* \d{4} at position i
Digits4(s, i) == i + 3 <= Len(s) /\ \A k \in 0..3 : s[i + k] \in Digit

\* $ at position i: the end of the string, or just before a final newline
AtEnd(s, i) == i = Len(s) + 1 \/ (i = Len(s) /\ s[i] = "\n")

\* s in t  (substring test of Python)
IsSubstring(s, t) ==
  \E i \in 0..(Len(t) - Len(s)) : \A k \in 1..Len(s) : t[i + k] = s[k]

(***************************************************************************)
(* _parse_case_number                                                      *)
(***************************************************************************)
case_types ==
  << <<"W", ".", "P", ".", "(", "C", ")">>,
     <<"W", ".", "P", ".", "(", "C", "R", "L", ")">>,
     <<"W", ".", "P", ".", "(", "M", "D", ")">>,
     <<"W", ".", "P", ".", "(", "C", "I", "V", "I", "L", ")">>,
     <<"W", ".", "P", ".", "(", "C", "R", "I", "M", "I", "N", "A", "L", ")">>,
     <<"C", ".", "M", ".", "(", "M", ")">>,
     <<"C", ".", "M", ".", "(", "W", ")">>,
     <<"C", ".", "M", ".", "(", "M", "A", "I", "N", ")">>,
     <<"C", ".", "M", ".", "(", "A", "P", "P", "L", ")">>,
     <<"C", ".", "M", ".", "(", "N", "O", ".", ")">>,
     <<"L", "P", "A">>,
     <<"F", "A", "O">>,
     <<"R", "F", "A">>,
     <<"C", "R", "L", ".", "A", ".">>,
     <<"C", "R", "L", ".", "M", ".", "C", ".">>,
     <<"C", "R", "L", ".", "R", "E", "V", ".", "P", ".">>,
     <<"C", ".", "R", ".", "P", ".">>,
     <<"C", ".", "M", ".">>,
     <<"O", ".", "A", ".">>,
     <<"T", ".", "A", ".">>,
     <<"A", ".", "A", ".">>,
     <<"E", ".", "P", ".">> >>

\* the literal (re.escape'd) token at the start of s, under re.IGNORECASE
TokenPrefix(tok, s) ==
  Len(s) >= Len(tok) /\ \A k \in 1..Len(tok) : LowerChar(s[k]) = LowerChar(tok[k])

\* the groups of  \s*(\d+)<sep>(\d{4})$  from position a, where sep is "/" or "-"
NumberYear(s, a, sep) ==
  LET b == SpanEnd(s, a, WS)
      c == SpanEnd(s, b, Digit)
  IN  IF c > b /\ CharAt(s, c, sep) /\ Digits4(s, c + 1) /\ AtEnd(s, c + 5)
      THEN Some([number |-> SubSeq(s, b, c - 1), year |-> SubSeq(s, c + 1, c + 4)])
      ELSE None

\* the groups of  \s*(\d+)\s*of\s*(\d{4})$  from position a
NumberOfYear(s, a) ==
  LET b == SpanEnd(s, a, WS)
      c == SpanEnd(s, b, Digit)
      d == SpanEnd(s, c, WS)
      e == SpanEnd(s, d + 2, WS)
  IN  IF c > b /\ CharAtI(s, d, "o") /\ CharAtI(s, d + 1, "f")
         /\ Digits4(s, e) /\ AtEnd(s, e + 4)
      THEN Some([number |-> SubSeq(s, b, c - 1), year |-> SubSeq(s, e, e + 3)])
      ELSE None

\* re.match(rf"^{re.escape(case_type)}\s*(\d+)/(\d{4})$", s) without re.IGNORECASE
KnownTokenMatchCaseSensitive(tok, s) ==
  IF Len(s) >= Len(tok) /\ \A k \in 1..Len(tok) : s[k] = tok[k]
  THEN NumberYear(s, Len(tok) + 1, "/")
  ELSE None

\* re.match(rf"^{re.escape(case_type)}\s*(\d+)/(\d{4})$", s, re.IGNORECASE)
KnownTokenMatch(tok, s) ==
  IF TokenPrefix(tok, s) THEN NumberYear(s, Len(tok) + 1, "/") ELSE None

\* re.match(patterns[k], s, re.IGNORECASE) for the three alternative patterns
GenericMatch(k, s) ==
  LET a == SpanEnd(s, 1, LetterDot)
      g == CASE k = 1 -> NumberYear(s, a, "/")
             [] k = 2 -> NumberOfYear(s, a)
             [] k = 3 -> NumberYear(s, a, "-")
  IN  IF a > 1 /\ g # None
      THEN Some([case_type |-> SubSeq(s, 1, a - 1),
                 number |-> g[1].number, year |-> g[1].year])
      ELSE None

\* the loop over the alternative patterns, from pattern k on
RECURSIVE GenericFrom(_, _)
GenericFrom(k, s) ==
  IF k > 3 THEN None
  ELSE IF GenericMatch(k, s) # None THEN GenericMatch(k, s)
  ELSE GenericFrom(k + 1, s)

\* the loop over case_types, from token k on, then the alternative patterns
RECURSIVE ParseFrom(_, _)
ParseFrom(k, s) ==
  IF k > Len(case_types) THEN GenericFrom(1, s)
  ELSE LET m == KnownTokenMatch(case_types[k], s)
       IN  IF m # None
           THEN Some([case_type |-> case_types[k],
                      number |-> m[1].number, year |-> m[1].year])
           ELSE ParseFrom(k + 1, s)

_parse_case_number(s) == ParseFrom(1, s)

(***************************************************************************)
(* Idle state of a fresh scraper object (__init__ keeps no result state)   *)
(***************************************************************************)
Init ==
  /\ op = "none"
  /\ pc = "idle"
  /\ arg = None
  /\ ret = None
  /\ raised = FALSE
  /\ requests = <<>>
  /\ ran = <<>>
  /\ padYear \in BOOLEAN

(***************************************************************************)
(* Inputs of _parse_case_number: a prefix, white space, a serial number, a *)
(* separator, a year and a tail, concatenated into one string              *)
(***************************************************************************)
MaxWs == 1

Spaces(n) == [i \in 1..n |-> " "]

KnownTokens == {case_types[k] : k \in 1..Len(case_types)}

PrefixPool ==
  KnownTokens \cup {lower(t) : t \in KnownTokens}
    \cup { <<>>, <<"A", "B", "C">>, <<"X", ".", "y", ".">>, <<"L", "p", "a">>,
           <<"W", ".", "P", ".", "(", "X", ")">>, <<"C", ".", "M", ".", "(", "M">>,
           <<"7">> }
WsPool == {Spaces(n) : n \in 0..MaxWs}
NumberPool == { <<>>, <<"7">>, <<"1", "6", "3">> }
SepPool == { <<"/">>, <<"-">>, <<"o", "f">>, <<" ", "O", "f", " ">>, <<":">> }
YearPool == { <<"2", "0", "2", "3">>, <<"2", "3">>, <<"2", "0", "2", "3", "4">> }
TailPool == { <<>>, <<"\n">>, <<"x">> }

CaseNumberInputs ==
  [prefix : PrefixPool, ws : WsPool, number : NumberPool,
   sep : SepPool, year : YearPool, tail : TailPool]

CaseNumberText(p) == p.prefix \o p.ws \o p.number \o p.sep \o p.year \o p.tail

\* the caller takes the returned value; the object keeps nothing of the call
Return ==
  /\ pc = "done"
  /\ op' = "none"
  /\ pc' = "idle"
  /\ arg' = None
  /\ ret' = None
  /\ raised' = FALSE
  /\ requests' = <<>>
  /\ ran' = <<>>
  /\ UNCHANGED padYear

\* one call of _parse_case_number
ParseCaseNumber(p) ==
  /\ pc = "idle"
  /\ op' = "parse"
  /\ pc' = "done"
  /\ arg' = p
  /\ ret' = _parse_case_number(CaseNumberText(p))
  /\ raised' = FALSE
  /\ requests' = <<>>
  /\ ran' = <<>>
  /\ UNCHANGED padYear

NextParse ==
  \/ \E p \in CaseNumberInputs : ParseCaseNumber(p)
  \/ Return

SpecParse == Init /\ [][NextParse]_vars

\* the input is: known token (any letter case), optional white space, digits,
\* "/", exactly four digits, and nothing else
WellFormedKnown(p, k) ==
  /\ lower(p.prefix) = lower(case_types[k])
  /\ p.number # <<>>
  /\ p.sep = <<"/">>
  /\ Len(p.year) = 4
  /\ p.tail = <<>>

\* C10: an input made of a known case-type token in any letter case, optional
\* white space, digits N, "/" and exactly four digits Y is parsed to the token
\* as spelled in case_types, serial number N and year Y; a shorter token of the
\* list never decides the result of an input that carries a longer one.
C10_KnownTokenParsed ==
  op = "parse" =>
    \A k \in 1..Len(case_types) :
      WellFormedKnown(arg, k) =>
        ret = Some([case_type |-> case_types[k],
                    number |-> arg.number, year |-> arg.year])

\* C10 witness: "c.m.(m) 163/2023" is parsed to C.M.(M), not to the later C.M.
C10_Witness ==
  /\ op = "parse"
  /\ arg.prefix = <<"c", ".", "m", ".", "(", "m", ")">>
  /\ arg.ws = <<" ">>
  /\ WellFormedKnown(arg, 6)
  /\ ret # None
  /\ ret[1].case_type = <<"C", ".", "M", ".", "(", "M", ")">>
  /\ ret[1].number = <<"1", "6", "3">>

(***************************************************************************)
(* _parse_date: datetime.strptime over the six formats, then strftime      *)
(***************************************************************************)
\* str.strip()
RECURSIVE StripEnd(_, _)
StripEnd(s, j) == IF j >= 1 /\ s[j] \in WS THEN StripEnd(s, j - 1) ELSE j
strip(s) == SubSeq(s, SpanEnd(s, 1, WS), StripEnd(s, Len(s)))

\* the positions of the character c in s
Positions(s, c) == {i \in 1..Len(s) : s[i] = c}

\* %d of strptime: 3[0-1]|[1-2]\d|0[1-9]|[1-9]| [1-9]
IsDayField(t) ==
  \/ Len(t) = 2 /\ t[1] = "3" /\ t[2] \in {"0", "1"}
  \/ Len(t) = 2 /\ t[1] \in {"1", "2"} /\ t[2] \in Digit
  \/ Len(t) = 2 /\ t[1] = "0" /\ t[2] \in Digit \ {"0"}
  \/ Len(t) = 1 /\ t[1] \in Digit \ {"0"}
  \/ Len(t) = 2 /\ t[1] = " " /\ t[2] \in Digit \ {"0"}

\* %m of strptime: 1[0-2]|0[1-9]|[1-9]
IsMonthField(t) ==
  \/ Len(t) = 2 /\ t[1] = "1" /\ t[2] \in {"0", "1", "2"}
  \/ Len(t) = 2 /\ t[1] = "0" /\ t[2] \in Digit \ {"0"}
  \/ Len(t) = 1 /\ t[1] \in Digit \ {"0"}

\* %Y (\d\d\d\d) and %y (\d\d) of strptime
IsDigitsOfLen(t, n) == Len(t) = n /\ \A i \in 1..n : t[i] \in Digit

\* int() of a field: white space is skipped, digits are read in base ten
RECURSIVE FieldVal(_, _)
FieldVal(t, n) ==
  IF n = 0 THEN 0
  ELSE IF t[n] \in Digit THEN 10 * FieldVal(t, n - 1) + DigitVal(t[n])
  ELSE FieldVal(t, n - 1)

\* %y: 00..68 are 2000..2068, 69..99 are 1969..1999
TwoDigitYear(v) == IF v <= 68 THEN 2000 + v ELSE 1900 + v

IsLeap(y) == y % 4 = 0 /\ (y % 100 # 0 \/ y % 400 = 0)

DaysInMonth(y, m) ==
  IF m = 2 THEN (IF IsLeap(y) THEN 29 ELSE 28)
  ELSE IF m \in {4, 6, 9, 11} THEN 30 ELSE 31

\* the date() constructor accepts the triple (MINYEAR is 1)
ValidDate(y, m, d) == y >= 1 /\ m \in 1..12 /\ d >= 1 /\ d <= DaysInMonth(y, m)

\* the six entries of date_formats: separator, order of the fields, kind of year
date_formats ==
  << [sep |-> "/", dayFirst |-> TRUE,  longYear |-> TRUE],
     [sep |-> "-", dayFirst |-> TRUE,  longYear |-> TRUE],
     [sep |-> "-", dayFirst |-> FALSE, longYear |-> TRUE],
     [sep |-> "/", dayFirst |-> TRUE,  longYear |-> FALSE],
     [sep |-> "-", dayFirst |-> TRUE,  longYear |-> FALSE],
     [sep |-> "/", dayFirst |-> FALSE, longYear |-> TRUE] >>

\* datetime.strptime(s, fmt): Some([y, m, d]), or None for ValueError.  The
\* whole string must be field, separator, field, separator, field.
strptime(s, fmt) ==
  LET ps == Positions(s, fmt.sep)
  IN  IF Cardinality(ps) # 2 THEN None
      ELSE
        LET p1 == CHOOSE i \in ps : \A j \in ps : i <= j
            p2 == CHOOSE i \in ps : \A j \in ps : i >= j
            f1 == SubSeq(s, 1, p1 - 1)
            f2 == SubSeq(s, p1 + 1, p2 - 1)
            f3 == SubSeq(s, p2 + 1, Len(s))
            fd == IF fmt.dayFirst THEN f1 ELSE f3
            fy == IF fmt.dayFirst THEN f3 ELSE f1
            y  == IF fmt.longYear THEN FieldVal(fy, Len(fy))
                  ELSE TwoDigitYear(FieldVal(fy, Len(fy)))
            m  == FieldVal(f2, Len(f2))
            d  == FieldVal(fd, Len(fd))
        IN  IF /\ IsDayField(fd)
               /\ IsMonthField(f2)
               /\ IsDigitsOfLen(fy, IF fmt.longYear THEN 4 ELSE 2)
               /\ ValidDate(y, m, d)
            THEN Some([y |-> y, m |-> m, d |-> d])
            ELSE None

DigitChars == <<"0", "1", "2", "3", "4", "5", "6", "7", "8", "9">>
DigitChar(n) == DigitChars[n + 1]

\* a number below 100 in two digits (%m, %d of strftime)
Pad2(n) == <<DigitChar(n \div 10), DigitChar(n % 10)>>

\* a number in decimal digits without leading zeros
RECURSIVE Decimal(_)
Decimal(n) == IF n < 10 THEN <<DigitChar(n)>>
              ELSE Decimal(n \div 10) \o <<DigitChar(n % 10)>>

\* %Y of strftime: four digits from 1000 on; below 1000 the platform decides
\* between zero padding and the bare number
FormatYear(y, pad) ==
  IF pad THEN Pad2(y \div 100) \o Pad2(y % 100) ELSE Decimal(y)

\* parsed_date.strftime('%Y-%m-%d')
strftime(dt, pad) ==
  FormatYear(dt.y, pad) \o <<"-">> \o Pad2(dt.m) \o <<"-">> \o Pad2(dt.d)

\* the loop over date_formats, from format k on
RECURSIVE ParseDateFrom(_, _, _)
ParseDateFrom(k, s, pad) ==
  IF k > Len(date_formats) THEN None
  ELSE LET r == strptime(strip(s), date_formats[k])
       IN  IF r # None THEN Some(strftime(r[1], pad))
           ELSE ParseDateFrom(k + 1, s, pad)

\* _parse_date of an Optional string
_parse_date(x, pad) ==
  IF x = None \/ x[1] = <<>> THEN None ELSE ParseDateFrom(1, x[1], pad)

(***************************************************************************)
(* Inputs of _parse_date: three fields and two separators, with optional   *)
(* white space around; and the empty string                                *)
(***************************************************************************)
DateFieldPool ==
  { <<"1">>, <<"1", "5">>, <<"2", "9">>, <<"3", "1">>, <<" ", "5">>,
    <<"0", "2">>, <<"1", "3">>,
    <<"2", "0", "2", "3">>, <<"2", "0", "2", "4">>, <<"0", "9", "9", "9">>,
    <<"0", "0", "0", "0">>, <<"2", "3">>, <<"6", "9">> }
DateSepPool == {"/", "-"}
DatePadPool == { <<>>, <<" ">> }

DateInputs ==
  { <<>> } \cup
  { w \o a \o <<s1>> \o b \o <<s2>> \o c \o w :
      a \in DateFieldPool, b \in DateFieldPool, c \in DateFieldPool,
      s1 \in DateSepPool, s2 \in DateSepPool, w \in DatePadPool }

\* one call of _parse_date
ParseDate(x) ==
  /\ pc = "idle"
  /\ op' = "date"
  /\ pc' = "done"
  /\ arg' = [text |-> x, again |-> FALSE]
  /\ ret' = _parse_date(Some(x), padYear)
  /\ raised' = FALSE
  /\ requests' = <<>>
  /\ ran' = <<>>
  /\ UNCHANGED padYear

\* _parse_date called on the string a previous call returned
ParseDateAgain ==
  /\ pc = "done"
  /\ op = "date"
  /\ ~arg.again
  /\ ret # None
  /\ arg' = [text |-> ret[1], again |-> TRUE]
  /\ ret' = _parse_date(ret, padYear)
  /\ UNCHANGED <<op, pc, raised, requests, ran, padYear>>

NextDate ==
  \/ \E x \in DateInputs : ParseDate(x)
  \/ ParseDateAgain
  \/ Return

SpecDate == Init /\ [][NextDate]_vars

\* C9: _parse_date applied to a string it returned gives that string back:
\* normalize(normalize(x)) = normalize(x) whenever normalize(x) is not None.
C9_Idempotent ==
  (op = "date" /\ arg.again) => ret = Some(arg.text)

(***************************************************************************)
(* _get_mock_cases, search_cases, get_case_details                         *)
(*                                                                         *)
(* A query value is [isStr, text]: a string, or (isStr = FALSE) a truthy   *)
(* value that is no string, such as a number, on which .lower() raises     *)
(* AttributeError.  A falsy value that is no string (None, 0) takes the    *)
(* same branches as the empty string and is not distinguished from it.     *)
(***************************************************************************)
mock_cases ==
  <<
     [case_number |-> <<"W", ".", "P", ".", "(", "C", ")", " ", "1", "0", "4", "0", "/", "2", "0", "2", "3">>,
      petitioner |-> <<"R", "e", "l", "i", "a", "n", "c", "e", " ", "I", "n", "d", "u", "s", "t", "r", "i", "e", "s", " ", "L", "i", "m", "i", "t", "e", "d">>,
      respondent |-> <<"U", "n", "i", "o", "n", " ", "o", "f", " ", "I", "n", "d", "i", "a", " ", "&", " ", "O", "r", "s", ".">>,
      filing_date |-> "2023-03-15", status |-> "Pending", court |-> "Delhi High Court",
      case_type |-> "W.P.(C)", judge |-> "Hon'ble Mr. Justice Rajiv Shakdher",
      next_hearing |-> "2024-01-15"],
     [case_number |-> <<"L", "P", "A", " ", "1", "6", "3", "/", "2", "0", "2", "3">>,
      petitioner |-> <<"S", "t", "a", "t", "e", " ", "o", "f", " ", "D", "e", "l", "h", "i">>,
      respondent |-> <<"D", "e", "l", "h", "i", " ", "D", "e", "v", "e", "l", "o", "p", "m", "e", "n", "t", " ", "A", "u", "t", "h", "o", "r", "i", "t", "y">>,
      filing_date |-> "2023-02-20", status |-> "Disposed", court |-> "Delhi High Court",
      case_type |-> "LPA", judge |-> "Hon'ble Mr. Justice Vipin Sanghi",
      next_hearing |-> "None"],
     [case_number |-> <<"F", "A", "O", " ", "4", "5", "6", "/", "2", "0", "2", "2">>,
      petitioner |-> <<"J", "o", "h", "n", " ", "D", "o", "e">>,
      respondent |-> <<"A", "B", "C", " ", "C", "o", "r", "p", "o", "r", "a", "t", "i", "o", "n">>,
      filing_date |-> "2022-11-10", status |-> "Pending", court |-> "Delhi High Court",
      case_type |-> "FAO", judge |-> "Hon'ble Ms. Justice Rekha Palli",
      next_hearing |-> "2024-01-20"],
     [case_number |-> <<"C", "R", "L", ".", "A", ".", " ", "7", "8", "9", "-", "2", "0", "2", "1">>,
      petitioner |-> <<"C", "e", "n", "t", "r", "a", "l", " ", "B", "u", "r", "e", "a", "u", " ", "o", "f", " ", "I", "n", "v", "e", "s", "t", "i", "g", "a", "t", "i", "o", "n">>,
      respondent |-> <<"X", "Y", "Z", " ", "L", "i", "m", "i", "t", "e", "d">>,
      filing_date |-> "2021-08-05", status |-> "Pending", court |-> "Delhi High Court",
      case_type |-> "CRL.A.", judge |-> "Hon'ble Mr. Justice Siddharth Mridul",
      next_hearing |-> "2024-01-25"],
     [case_number |-> <<"C", ".", "M", ".", "(", "M", ")", " ", "1", "2", "3", "/", "2", "0", "2", "3">>,
      petitioner |-> <<"D", "e", "l", "h", "i", " ", "M", "e", "t", "r", "o", " ", "R", "a", "i", "l", " ", "C", "o", "r", "p", "o", "r", "a", "t", "i", "o", "n">>,
      respondent |-> <<"M", "u", "n", "i", "c", "i", "p", "a", "l", " ", "C", "o", "r", "p", "o", "r", "a", "t", "i", "o", "n", " ", "o", "f", " ", "D", "e", "l", "h", "i">>,
      filing_date |-> "2023-04-12", status |-> "Pending", court |-> "Delhi High Court",
      case_type |-> "C.M.(M)", judge |-> "Hon'ble Mr. Justice Yashwant Varma",
      next_hearing |-> "2024-01-30"] >>

\* filtered_cases[:5]
MockLimit == 5

Str(t) == [isStr |-> TRUE, text |-> t]
NotAString == [isStr |-> FALSE, text |-> <<>>]
Truthy(v) == ~v.isStr \/ v.text # <<>>

\* the test on case_number (code line 132)
CaseNumberHit(case, cn) ==
  Truthy(cn) /\ IsSubstring(lower(cn.text), lower(case.case_number))

\* the test on party_name without the two reversed containments
PartyHitOneWay(case, pn) ==
  Truthy(pn) /\
    LET party_lower == lower(pn.text)
    IN  \/ IsSubstring(party_lower, lower(case.petitioner))
        \/ IsSubstring(party_lower, lower(case.respondent))

\* the test on party_name (code lines 137-145)
PartyHit(case, pn) ==
  Truthy(pn) /\
    LET party_lower == lower(pn.text)
        petitioner_lower == lower(case.petitioner)
        respondent_lower == lower(case.respondent)
    IN  \/ IsSubstring(party_lower, petitioner_lower)
        \/ IsSubstring(party_lower, respondent_lower)
        \/ IsSubstring(petitioner_lower, party_lower)
        \/ IsSubstring(respondent_lower, party_lower)

\* one pass of the loop body appends the case
Included(case, cn, pn) ==
  IF CaseNumberHit(case, cn) THEN TRUE
  ELSE IF PartyHit(case, pn) THEN TRUE
  ELSE ~Truthy(cn) /\ ~Truthy(pn)

\* one pass of the loop body raises AttributeError
BodyRaises(case, cn, pn) ==
  \/ Truthy(cn) /\ ~cn.isStr
  \/ ~(Truthy(cn) /\ CaseNumberHit(case, cn)) /\ Truthy(pn) /\ ~pn.isStr

\* the loop over mock_cases, from case k on
RECURSIVE MockLoop(_, _, _)
MockLoop(k, cn, pn) ==
  IF k > Len(mock_cases) THEN <<>>
  ELSE (IF Included(mock_cases[k], cn, pn) THEN <<mock_cases[k]>> ELSE <<>>)
         \o MockLoop(k + 1, cn, pn)

\* list[:n]
Take(list, n) == SubSeq(list, 1, IF Len(list) < n THEN Len(list) ELSE n)

\* _get_mock_cases: raises AttributeError, or returns filtered_cases[:5]
_get_mock_cases(cn, pn) ==
  IF \E k \in 1..Len(mock_cases) : BodyRaises(mock_cases[k], cn, pn)
  THEN Raised
  ELSE Returned(Take(MockLoop(1, cn, pn), MockLimit))

\* search_cases: the mock list, or [] when anything raised
search_cases(cn, pn) == TryExcept(_get_mock_cases(cn, pn), <<>>)

\* get_case_details: the first case of search_cases(case_number=c), or None
get_case_details(c) ==
  LET cases == search_cases(c, Str(<<>>))
  IN  TryExcept(IF cases.raises THEN Raised
                ELSE IF cases.value # <<>> THEN Returned(Some(cases.value[1]))
                ELSE Returned(None),
                None)

CaseQueryPool ==
  { <<>>,
    <<"L", "P", "A">>,
    <<"l", "p", "a">>,
    <<"2", "0", "2", "3">>,
    <<"/", "2", "0">>,
    <<"W", ".", "P", ".", "(", "C", ")", " ", "1", "0", "4", "0", "/", "2", "0", "2", "3", " ">>,
    <<"x", "y", "z">>,
    <<"c", ".", "m", ".">>,
    <<"A">>,
    <<"(">> }
PartyQueryPool ==
  { <<>>,
    <<"d", "e", "l", "h", "i">>,
    <<"D", "E", "L", "H", "I">>,
    <<"J", "o", "h", "n", " ", "D", "o", "e">>,
    <<"M", "r", ".", " ", "J", "o", "h", "n", " ", "D", "o", "e", " ", "J", "r", ".">>,
    <<"a", "b", "c", " ", "c", "o", "r", "p", "o", "r", "a", "t", "i", "o", "n", " ", "p", "v", "t">>,
    <<"i", "n", "d", "i", "a">>,
    <<"z", "z", "z">>,
    <<"o">>,
    <<"L", "t", "d">>,
    <<"X", "Y", "Z", " ", "L", "I", "M", "I", "T", "E", "D">>,
    <<" ">> }

CaseQueries == {Str(t) : t \in CaseQueryPool} \cup {NotAString}
PartyQueries == {Str(t) : t \in PartyQueryPool} \cup {NotAString}

\* one call of _get_mock_cases
GetMockCases(cn, pn) ==
  /\ pc = "idle"
  /\ op' = "_get_mock_cases"
  /\ pc' = "done"
  /\ arg' = [case_number |-> cn, party_name |-> pn]
  /\ LET r == _get_mock_cases(cn, pn)
     IN  ret' = r.value /\ raised' = r.raises
  /\ requests' = <<>>
  /\ ran' = <<>>
  /\ UNCHANGED padYear

NextMock ==
  \/ \E cn \in CaseQueries, pn \in PartyQueries : GetMockCases(cn, pn)
  \/ Return

SpecMock == Init /\ [][NextMock]_vars

\* the matching rule of the mock source, stated on strings
MockRule(case, c, p) ==
  \/ c # <<>> /\ IsSubstring(lower(c), lower(case.case_number))
  \/ p # <<>> /\ \/ IsSubstring(lower(p), lower(case.petitioner))
                 \/ IsSubstring(lower(p), lower(case.respondent))
                 \/ IsSubstring(lower(case.petitioner), lower(p))
                 \/ IsSubstring(lower(case.respondent), lower(p))
  \/ c = <<>> /\ p = <<>>

\* the indices of the dataset a query selects, in ascending order they are
\* the positions 1..n of the answer
MockSelected(c, p) == {k \in 1..Len(mock_cases) : MockRule(mock_cases[k], c, p)}

\* C7: for string queries the mock source returns exactly the records that
\* satisfy the matching rule, in dataset order, at most 5 of them; a record
\* that matches no part of the rule is never returned.
C7_MockFilter ==
  (op = "_get_mock_cases" /\ arg.case_number.isStr /\ arg.party_name.isStr) =>
    LET sel == MockSelected(arg.case_number.text, arg.party_name.text)
        n == IF Cardinality(sel) < 5 THEN Cardinality(sel) ELSE 5
    IN  /\ ~raised
        /\ Len(ret) = n
        /\ \A i \in 1..n :
             \E k \in sel :
               /\ ret[i] = mock_cases[k]
               /\ Cardinality({j \in sel : j < k}) = i - 1

\* C7 witness: a party query that contains a petitioner ("Mr. John Doe Jr.")
\* selects exactly that one record, with no case-number query
C7_Witness ==
  /\ op = "_get_mock_cases"
  /\ arg.case_number = Str(<<>>)
  /\ arg.party_name.isStr
  /\ Len(arg.party_name.text) = 16
  /\ Len(ret) = 1
  /\ ret[1].case_type = "FAO"

(***************************************************************************)
(* Documents.  A document is what BeautifulSoup makes of html_content:     *)
(*   rows  the <tr> rows of its tables in document order, each the         *)
(*         sequence of the texts of its <td>/<th> cells                    *)
(*   divs  its <div> elements, each [class, children], a child being a     *)
(*         descendant [cls, text] in document order                        *)
(*   text  the text outside tables and divs                                *)
(* html_content is the document rendered; a tag (with its attributes) is   *)
(* one element of the sequence.                                            *)
(***************************************************************************)
Tags == {"<table>", "</table>", "<tr>", "</tr>", "<td>", "</td>",
         "<div>", "</div>", "<span>", "</span>"}

RECURSIVE Flatten(_)
Flatten(ss) == IF ss = <<>> THEN <<>> ELSE Head(ss) \o Flatten(Tail(ss))

RenderRow(r) ==
  <<"<tr>">> \o Flatten([i \in 1..Len(r) |-> <<"<td>">> \o r[i] \o <<"</td>">>])
    \o <<"</tr>">>

RenderDiv(d) ==
  <<"<div>">>
    \o Flatten([i \in 1..Len(d.children) |->
                  <<"<span>">> \o d.children[i].text \o <<"</span>">>])
    \o <<"</div>">>

\* html_content of a document
Render(doc) ==
  doc.text
    \o (IF doc.rows = <<>> THEN <<>>
        ELSE <<"<table>">> \o Flatten([i \in 1..Len(doc.rows) |-> RenderRow(doc.rows[i])])
               \o <<"</table>">>)
    \o Flatten([i \in 1..Len(doc.divs) |-> RenderDiv(doc.divs[i])])

(***************************************************************************)
(* Case records                                                            *)
(***************************************************************************)
NA == <<"N", "/", "A">>
Unknown == <<"U", "n", "k", "n", "o", "w", "n">>

\* x or default, for an Optional string x
OrDefault(x, default) == IF x = None \/ x[1] = <<>> THEN default ELSE x[1]

\* C* from position i for the complement of a class
RECURSIVE SpanEndNot(_, _, _)
SpanEndNot(s, i, C) ==
  IF i <= Len(s) /\ s[i] \notin C THEN SpanEndNot(s, i + 1, C) ELSE i

\* _extract_case_type: case_number.split()[0], or 'Unknown'
_extract_case_type(case_number) ==
  LET i == SpanEnd(case_number, 1, WS)
  IN  IF i > Len(case_number) THEN Unknown
      ELSE SubSeq(case_number, i, SpanEndNot(case_number, i, WS) - 1)

(***************************************************************************)
(* _extract_case_from_row                                                  *)
(***************************************************************************)
\* re.search(r'[A-Z\.]+\([A-Z]+\)\s+\d+/\d{4}', t) matches from position i
CaseShapeAt(t, i) ==
  LET a == SpanEnd(t, i, UpperDot)
      b == SpanEnd(t, a + 1, Upper)
      c == SpanEnd(t, b + 1, WS)
      d == SpanEnd(t, c, Digit)
  IN  /\ a > i /\ CharAt(t, a, "(")
      /\ b > a + 1 /\ CharAt(t, b, ")")
      /\ c > b + 1
      /\ d > c /\ CharAt(t, d, "/")
      /\ Digits4(t, d + 1)

HasCaseShape(t) == \E i \in 1..Len(t) : CaseShapeAt(t, i)

\* re.search(r'\d{1,2}[/-]\d{1,2}[/-]\d{4}', t)
HasDateShape(t) ==
  \E i \in 1..Len(t), n1 \in 1..2, n2 \in 1..2 :
    /\ i + n1 + n2 + 1 <= Len(t)
    /\ \A k \in 0..(n1 - 1) : t[i + k] \in Digit
    /\ t[i + n1] \in {"/", "-"}
    /\ \A k \in 1..n2 : t[i + n1 + k] \in Digit
    /\ t[i + n1 + n2 + 1] \in {"/", "-"}
    /\ Digits4(t, i + n1 + n2 + 2)

PartyWords == { <<"p", "e", "t", "i", "t", "i", "o", "n", "e", "r">>, <<"v", "s">> }
StatusWords ==
  { <<"p", "e", "n", "d", "i", "n", "g">>, <<"d", "i", "s", "p", "o", "s", "e", "d">>,
    <<"d", "i", "s", "m", "i", "s", "s", "e", "d">>, <<"c", "l", "o", "s", "e", "d">> }

\* any(word in t.lower() for word in words)
HasWord(t, words) == \E w \in words : IsSubstring(w, lower(t))

\* the loop over the cells from cell i on; f holds the four fields found so far
RECURSIVE RowScan(_, _, _)
RowScan(cells, i, f) ==
  IF i > Len(cells) THEN f
  ELSE
    LET cell_text == strip(cells[i])
        g == IF f.case_number = None /\ HasCaseShape(cell_text)
               THEN [f EXCEPT !.case_number = Some(cell_text)]
             ELSE IF HasWord(cell_text, PartyWords)
               THEN (IF i + 1 <= Len(cells)
                     THEN [f EXCEPT !.petitioner = Some(strip(cells[i + 1]))]
                     ELSE f)
             ELSE IF HasDateShape(cell_text)
               THEN (IF OrDefault(f.filing_date, <<>>) = <<>>
                     THEN [f EXCEPT !.filing_date = Some(cell_text)]
                     ELSE f)
             ELSE IF HasWord(cell_text, StatusWords)
               THEN [f EXCEPT !.status = Some(cell_text)]
             ELSE f
    IN  RowScan(cells, i + 1, g)

NoFields == [case_number |-> None, petitioner |-> None,
             filing_date |-> None, status |-> None]

\* the record built from the fields, whether or not a case number was found
RowRecord(f, pad) ==
  [case_number |-> OrDefault(f.case_number, <<>>),
   petitioner |-> OrDefault(f.petitioner, NA),
   respondent |-> NA,
   filing_date |-> IF OrDefault(f.filing_date, <<>>) # <<>>
                   THEN _parse_date(f.filing_date, pad) ELSE None,
   status |-> OrDefault(f.status, Unknown),
   court |-> "Delhi High Court",
   case_type |-> _extract_case_type(OrDefault(f.case_number, <<>>)),
   judge |-> None,
   next_hearing |-> None]

\* _extract_case_from_row without the test "if case_number"
RowAlwaysRecord(cells, pad) == Some(RowRecord(RowScan(cells, 1, NoFields), pad))

\* _extract_case_from_row: Some(record) or None
_extract_case_from_row(cells, pad) ==
  LET f == RowScan(cells, 1, NoFields)
  IN  IF OrDefault(f.case_number, <<>>) # <<>> THEN Some(RowRecord(f, pad)) ELSE None

\* the loops over tables and rows (code lines 320-330), from row k on
RECURSIVE TableCases(_, _, _)
TableCases(rows, k, pad) ==
  IF k > Len(rows) THEN <<>>
  ELSE (IF Len(rows[k]) >= 3 THEN _extract_case_from_row(rows[k], pad) ELSE <<>>)
         \o TableCases(rows, k + 1, pad)

(***************************************************************************)
(* _extract_from_text                                                      *)
(***************************************************************************)
\* re.sub(r'<[^>]+>', ' ', html_content)
StripTags(html) == [i \in 1..Len(html) |-> IF html[i] \in Tags THEN " " ELSE html[i]]

\* re.sub(r'\s+', ' ', text): the first character of a run of white space
\* becomes " ", the others are dropped ("" marks a dropped position)
CollapseWs(t) ==
  LET u == [i \in 1..Len(t) |->
              IF t[i] \notin WS THEN t[i]
              ELSE IF i > 1 /\ t[i - 1] \in WS THEN "" ELSE " "]
      Kept(c) == c # ""
  IN  SelectSeq(u, Kept)

\* the plain text the patterns are applied to
PlainText(html) == strip(CollapseWs(StripTags(html)))

\* case_patterns[k] matched at position i under re.IGNORECASE: the position
\* after the match, or 0 for no match
PatternEndAt(k, t, i) ==
  LET a == SpanEnd(t, i, LetterDot)
      b == SpanEnd(t, a, WS)
      c == SpanEnd(t, b, Digit)
      d == SpanEnd(t, c, WS)
      e == SpanEnd(t, d + 2, WS)
  IN  IF ~(a > i /\ b > a /\ c > b) THEN 0
      ELSE IF k = 1 THEN (IF CharAt(t, c, "/") /\ Digits4(t, c + 1) THEN c + 5 ELSE 0)
      ELSE IF k = 3 THEN (IF CharAt(t, c, "-") /\ Digits4(t, c + 1) THEN c + 5 ELSE 0)
      ELSE IF /\ d > c /\ CharAtI(t, d, "o") /\ CharAtI(t, d + 1, "f")
              /\ e > d + 2 /\ Digits4(t, e)
           THEN e + 4 ELSE 0

\* re.findall(case_patterns[k], t, re.IGNORECASE), from position i on: the
\* leftmost match, then the matches after its end
RECURSIVE FindAll(_, _, _)
FindAll(k, t, i) ==
  LET starts == {j \in i..Len(t) : PatternEndAt(k, t, j) > 0}
  IN  IF starts = {} THEN <<>>
      ELSE LET j == CHOOSE x \in starts : \A y \in starts : x <= y
               e == PatternEndAt(k, t, j)
           IN  <<SubSeq(t, j, e - 1)>> \o FindAll(k, t, e)

\* the minimal record of one match
TextRecord(match) ==
  [case_number |-> strip(match),
   petitioner |-> NA,
   respondent |-> NA,
   filing_date |-> None,
   status |-> Unknown,
   court |-> "Delhi High Court",
   case_type |-> _extract_case_type(match),
   judge |-> None,
   next_hearing |-> None]

\* _extract_from_text: the matches of pattern 1, then 2, then 3
_extract_from_text(html) ==
  LET t == PlainText(html)
      ms == FindAll(1, t, 1) \o FindAll(2, t, 1) \o FindAll(3, t, 1)
  IN  [i \in 1..Len(ms) |-> TextRecord(ms[i])]

(***************************************************************************)
(* _extract_from_divs, _extract_case_data, _extract_text                   *)
(***************************************************************************)
ClassWords == { <<"c", "a", "s", "e">>, <<"r", "e", "s", "u", "l", "t">>,
                <<"r", "o", "w">>, <<"i", "t", "e", "m">> }

\* class_=re.compile(r'case|result|row|item')
ClassMatches(class) == \E w \in ClassWords : IsSubstring(w, class)

\* element.find(class_=name): the first descendant of that class, if any
FindClass(element, name) ==
  LET hits == {i \in 1..Len(element.children) : element.children[i].cls = name}
  IN  IF hits = {} THEN None
      ELSE Some(element.children[CHOOSE i \in hits : \A j \in hits : i <= j])

\* _extract_text: the text of the first alias, from alias k on, that is found
RECURSIVE _extract_text(_, _, _)
_extract_text(element, class_names, k) ==
  IF k > Len(class_names) THEN None
  ELSE LET found == FindClass(element, class_names[k])
       IN  IF found # None THEN Some(strip(found[1].text))
           ELSE _extract_text(element, class_names, k + 1)

\* the record built from an element, whether or not a case number was found
DivRecord(element, pad) ==
  LET case_number == _extract_text(element, <<"case-number", "case_no", "case_number">>, 1)
      petitioner == _extract_text(element, <<"petitioner", "petitioner_name">>, 1)
      respondent == _extract_text(element, <<"respondent", "respondent_name">>, 1)
      filing_date == _extract_text(element, <<"filing_date", "date_filed">>, 1)
      status == _extract_text(element, <<"status", "case_status">>, 1)
  IN  [case_number |-> OrDefault(case_number, <<>>),
       petitioner |-> OrDefault(petitioner, NA),
       respondent |-> OrDefault(respondent, NA),
       filing_date |-> IF OrDefault(filing_date, <<>>) # <<>>
                       THEN _parse_date(filing_date, pad) ELSE None,
       status |-> OrDefault(status, Unknown),
       court |-> "Delhi High Court",
       case_type |-> _extract_case_type(OrDefault(case_number, <<>>)),
       judge |-> _extract_text(element, <<"judge", "judge_name">>, 1),
       next_hearing |-> _extract_text(element, <<"next_hearing", "hearing_date">>, 1)]

\* _extract_case_data without the test "if case_number"
DivAlwaysRecord(element, pad) == Some(DivRecord(element, pad))

\* _extract_case_data: Some(record) or None
_extract_case_data(element, pad) ==
  IF DivRecord(element, pad).case_number # <<>>
  THEN Some(DivRecord(element, pad)) ELSE None

\* _extract_from_divs: the loop over the divs of a matching class, from div k on
RECURSIVE _extract_from_divs(_, _, _)
_extract_from_divs(divs, k, pad) ==
  IF k > Len(divs) THEN <<>>
  ELSE (IF ClassMatches(divs[k].class) THEN _extract_case_data(divs[k], pad) ELSE <<>>)
         \o _extract_from_divs(divs, k + 1, pad)

(***************************************************************************)
(* _parse_search_results                                                   *)
(***************************************************************************)
CaptchaWords == { <<"c", "a", "p", "t", "c", "h", "a">>, <<"v", "e", "r", "i", "f", "y">> }

\* the CAPTCHA test without .lower()
CaptchaCaseSensitive(html) == \E w \in CaptchaWords : IsSubstring(w, html)

\* 'captcha' in html_content.lower() or 'verify' in html_content.lower()
Captcha(html) == \E w \in CaptchaWords : IsSubstring(w, lower(html))

\* the fallback in the order table, attribute, text
FallbackAttributeFirst(doc, pad) ==
  LET t == TableCases(doc.rows, 1, pad)
      d == _extract_from_divs(doc.divs, 1, pad)
      x == _extract_from_text(Render(doc))
  IN  IF t # <<>> THEN [cases |-> t, ran |-> <<"table">>]
      ELSE IF d # <<>> THEN [cases |-> d, ran |-> <<"table", "attribute">>]
      ELSE [cases |-> x, ran |-> <<"table", "attribute", "text">>]

\* code lines 319-340: the tables, then "if not cases" the text, then
\* "if not cases" the divs
Fallback(doc, pad) ==
  LET t == TableCases(doc.rows, 1, pad)
      x == _extract_from_text(Render(doc))
      d == _extract_from_divs(doc.divs, 1, pad)
  IN  IF t # <<>> THEN [cases |-> t, ran |-> <<"table">>]
      ELSE IF x # <<>> THEN [cases |-> x, ran |-> <<"table", "text">>]
      ELSE [cases |-> d, ran |-> <<"table", "text", "attribute">>]

\* _parse_search_results: the list returned and the strategies attempted
_parse_search_results(doc, pad) ==
  IF Captcha(Render(doc)) THEN [cases |-> <<>>, ran |-> <<>>]
  ELSE Fallback(doc, pad)

(***************************************************************************)
(* Documents given to _parse_search_results                                *)
(***************************************************************************)
MaxRows == 2
MaxDivs == 1

RowPool ==
  {  << <<"W", ".", "P", ".", "(", "C", ")", " ", "1", "/", "2", "0", "2", "3">>,
       <<"v", "s">>,
       <<"R", "e", "l", "i", "a", "n", "c", "e">>,
       <<"1", "5", "/", "0", "3", "/", "2", "0", "2", "3">>,
       <<"P", "e", "n", "d", "i", "n", "g">> >>,
     << <<"C", ".", "M", ".", "(", "M", ")", " ", "2", "/", "2", "0", "2", "3">>,
       <<"P", "e", "n", "d", "i", "n", "g">> >>,
     << <<"L", "P", "A", " ", "1", "6", "3", "/", "2", "0", "2", "3">>,
       <<"R", "e", "l", "i", "a", "n", "c", "e">>,
       <<"P", "e", "n", "d", "i", "n", "g">> >>,
     << <<"S", "r">>,
       <<"N", "a", "m", "e">>,
       <<"D", "a", "t", "e">> >> }

DivPool ==
  {  [class |-> <<"c", "a", "s", "e">>,
       children |-> << [cls |-> "case-number", text |-> <<"W", ".", "P", ".", "(", "C", ")", " ", "1", "/", "2", "0", "2", "3">>],
                    [cls |-> "petitioner", text |-> <<"R", "e", "l", "i", "a", "n", "c", "e">>],
                    [cls |-> "filing_date", text |-> <<"1", "5", "/", "0", "3", "/", "2", "0", "2", "3">>] >>],
     [class |-> <<"c", "a", "s", "e">>,
       children |-> << [cls |-> "case-number", text |-> <<>>],
                    [cls |-> "case_no", text |-> <<"C", ".", "M", ".", "(", "M", ")", " ", "2", "/", "2", "0", "2", "3">>] >>],
     [class |-> <<"o", "t", "h", "e", "r">>,
       children |-> << [cls |-> "case-number", text |-> <<"C", ".", "M", ".", "(", "M", ")", " ", "2", "/", "2", "0", "2", "3">>] >>],
     [class |-> <<"r", "e", "s", "u", "l", "t", "-", "r", "o", "w">>,
       children |-> << [cls |-> "case_number", text |-> <<"F", "A", "O", " ", "4", "5", "6", "/", "2", "0", "2", "2">>],
                    [cls |-> "status", text |-> <<"P", "e", "n", "d", "i", "n", "g">>] >>] }

TextPool ==
  {  <<>>,
     <<"L", "P", "A", " ", "1", "6", "3", "/", "2", "0", "2", "3", " ", "a", "n", "d", " ", "L", "P", "A", " ", "1", "6", "3", "/", "2", "0", "2", "3">>,
     <<"F", "A", "O", " ", "4", "5", "6", " ", "o", "f", " ", "2", "0", "2", "2", ",", " ", "C", "R", "L", ".", "A", ".", " ", "7", "8", "9", "-", "2", "0", "2", "1">>,
     <<"P", "l", "e", "a", "s", "e", " ", "c", "o", "m", "p", "l", "e", "t", "e", " ", "t", "h", "e", " ", "C", "A", "P", "T", "C", "H", "A">>,
     <<"N", "o", " ", "r", "e", "c", "o", "r", "d", "s", " ", "f", "o", "u", "n", "d">> }

\* the sequences over S of length at most n
SeqUpTo(S, n) == UNION {[1..k -> S] : k \in 0..n}

Documents ==
  [rows : SeqUpTo(RowPool, MaxRows), divs : SeqUpTo(DivPool, MaxDivs), text : TextPool]

\* one call of _parse_search_results
ParseSearchResults(doc) ==
  /\ pc = "idle"
  /\ op' = "_parse_search_results"
  /\ pc' = "done"
  /\ arg' = doc
  /\ \E r \in {_parse_search_results(doc, padYear)} :
       ret' = r.cases /\ ran' = r.ran
  /\ raised' = FALSE
  /\ requests' = <<>>
  /\ UNCHANGED padYear

NextExtract ==
  \/ \E doc \in Documents : ParseSearchResults(doc)
  \/ Return

SpecExtract == Init /\ [][NextExtract]_vars

(***************************************************************************)
(* Rows given to _extract_case_from_row: the texts of the cells of one row *)
(***************************************************************************)
MaxCells == 3

CellPool ==
  { <<"W", ".", "P", ".", "(", "C", ")", " ", "1", "/", "2", "0", "2", "3">>,
    <<"C", ".", "M", ".", "(", "M", ")", " ", "2", "/", "2", "0", "2", "3">>,
    <<"1", "5", "/", "0", "3", "/", "2", "0", "2", "3">>,
    <<"1", "-", "2", "-", "2", "0", "2", "2">>,
    <<"v", "s">>,
    <<"R", "e", "l", "i", "a", "n", "c", "e">>,
    <<"P", "e", "n", "d", "i", "n", "g">>,
    <<"v", "s", " ", "1", "6", "/", "0", "3", "/", "2", "0", "2", "3">>,
    <<"w", ".", "p", ".", "(", "c", ")", " ", "4", "/", "2", "0", "2", "3">>,
    <<" ", "W", ".", "P", ".", "(", "C", ")", " ", "5", "/", "2", "0", "2", "3", " ", "d", "t", " ", "1", "7", "/", "0", "3", "/", "2", "0", "2", "3">> }

Rows == SeqUpTo(CellPool, MaxCells)

\* one call of _extract_case_from_row
ExtractCaseFromRow(cells) ==
  /\ pc = "idle"
  /\ op' = "_extract_case_from_row"
  /\ pc' = "done"
  /\ arg' = cells
  /\ \E r \in {_extract_case_from_row(cells, padYear)} : ret' = r
  /\ raised' = FALSE
  /\ requests' = <<>>
  /\ ran' = <<>>
  /\ UNCHANGED padYear

NextRow ==
  \/ \E cells \in Rows : ExtractCaseFromRow(cells)
  \/ Return

SpecRow == Init /\ [][NextRow]_vars

(***************************************************************************)
(* Elements given to _extract_case_data: a div and its classed children    *)
(***************************************************************************)
MaxChildren == 3

ChildPool ==
  { [cls |-> "case-number", text |-> <<>>],
    [cls |-> "case-number", text |-> <<"L", "P", "A", " ", "1", "/", "2", "0", "2", "3">>],
    [cls |-> "case-number", text |-> <<" ">>],
    [cls |-> "case_no", text |-> <<>>],
    [cls |-> "case_no", text |-> <<"W", ".", "P", ".", "(", "C", ")", " ", "2", "/", "2", "0", "2", "3">>],
    [cls |-> "case_number", text |-> <<"F", "A", "O", " ", "3", "/", "2", "0", "2", "2">>],
    [cls |-> "petitioner", text |-> <<>>],
    [cls |-> "petitioner", text |-> <<"R", "e", "l", "i", "a", "n", "c", "e">>],
    [cls |-> "petitioner_name", text |-> <<>>],
    [cls |-> "petitioner_name", text |-> <<"S", "t", "a", "t", "e", " ", "o", "f", " ", "D", "e", "l", "h", "i">>] }

Elements == [class : { <<"c", "a", "s", "e">> }, children : SeqUpTo(ChildPool, MaxChildren)]

\* one call of _extract_case_data
ExtractCaseData(element) ==
  /\ pc = "idle"
  /\ op' = "_extract_case_data"
  /\ pc' = "done"
  /\ arg' = element
  /\ \E r \in {_extract_case_data(element, padYear)} : ret' = r
  /\ raised' = FALSE
  /\ requests' = <<>>
  /\ ran' = <<>>
  /\ UNCHANGED padYear

NextDiv ==
  \/ \E element \in Elements : ExtractCaseData(element)
  \/ Return

SpecDiv == Init /\ [][NextDiv]_vars

(***************************************************************************)
(* The requests of a call: session.get / session.post followed by          *)
(* response.raise_for_status().  An outcome is                             *)
(*   "2xx"               a response with a success status                  *)
(*   "3xx"               a redirection status that the session returns     *)
(*                       (304, or a 3xx without Location);                 *)
(*                       raise_for_status raises for 400..599 only         *)
(*   "4xx5xx"            raise_for_status raises HTTPError                 *)
(*   "connection_error"  the session raises ConnectionError                *)
(*   "timeout"           the session raises Timeout after timeout=30       *)
(***************************************************************************)
Outcomes == {"2xx", "3xx", "4xx5xx", "connection_error", "timeout"}

\* a request whose status is never looked at raises for the transport errors only
RaisesWithoutStatusCheck(o) == o \in {"connection_error", "timeout"}

\* the request, with raise_for_status, raises an exception
Raises(o) == o \in {"4xx5xx", "connection_error", "timeout"}

Request(method, outcome) == [method |-> method, outcome |-> outcome]

\* the last request of the call has got its outcome
Answered(reqs, o) == [reqs EXCEPT ![Len(reqs)].outcome = o]

\* the start of _search_by_case_number without the test "if not case_info"
SearchStartNoCheck(q) == IF ~q.isStr THEN "raise" ELSE "get"

\* code lines 166-169: "raise" (re.match on a value that is no string),
\* "return" (not case_info) or "get"
SearchStart(q) ==
  IF ~q.isStr THEN "raise"
  ELSE IF _parse_case_number(q.text) = None THEN "return"
  ELSE "get"

\* what a test_connection or search returns when an exception was caught
ErrorDiagnostic == [status |-> "error"]
Failure(operation) == IF operation = "test_connection" THEN ErrorDiagnostic ELSE <<>>

\* what test_connection returns for a page
Diagnostic(page, o) ==
  [status |-> "success", status_class |-> o, has_captcha |-> Captcha(Render(page))]

SearchQueryPool ==
  {  <<"L", "P", "A", " ", "1", "6", "3", "/", "2", "0", "2", "3">>,
     <<"b", "a", "n", "a", "n", "a">>,
     <<>>,
     <<"w", ".", "p", ".", "(", "c", ")", " ", "1", "0", "4", "0", "/", "2", "0", "2", "3">>,
     <<"L", "P", "A", " ", "1", "6", "3", " ", "o", "f", " ", "2", "0", "2", "3">>,
     <<"1", "6", "3", "/", "2", "0", "2", "3">>,
     <<"L", "P", "A", " ", "1", "6", "3", "/", "2", "3">> }
SearchQueries == {Str(t) : t \in SearchQueryPool} \cup {NotAString}
PartyNames == {Str(<<>>), Str(<<"R", "e", "l", "i", "a", "n", "c", "e">>), NotAString}

\* the pages the site answers with
Pages == [rows : SeqUpTo(RowPool, 1), divs : SeqUpTo(DivPool, 1), text : TextPool]

\* _search_by_case_number up to its first request
StartSearchByCaseNumber(q) ==
  /\ pc = "idle"
  /\ op' = "_search_by_case_number"
  /\ arg' = [query |-> q, page |-> None]
  /\ ran' = <<>>
  /\ LET start == SearchStart(q)
         r == TryExcept(IF start = "raise" THEN Raised ELSE Returned(<<>>), <<>>)
     IN  IF start = "get"
         THEN /\ pc' = "get"
              /\ requests' = <<Request("GET", "pending")>>
              /\ ret' = None
              /\ raised' = FALSE
         ELSE /\ pc' = "done"
              /\ requests' = <<>>
              /\ ret' = r.value
              /\ raised' = r.raises
  /\ UNCHANGED padYear

\* _search_by_party_name up to its first request
StartSearchByPartyName(name) ==
  /\ pc = "idle"
  /\ op' = "_search_by_party_name"
  /\ arg' = [query |-> name, page |-> None]
  /\ pc' = "get"
  /\ requests' = <<Request("GET", "pending")>>
  /\ ret' = None
  /\ raised' = FALSE
  /\ ran' = <<>>
  /\ UNCHANGED padYear

\* test_connection up to its request
StartTestConnection ==
  /\ pc = "idle"
  /\ op' = "test_connection"
  /\ arg' = [query |-> Str(<<>>), page |-> None]
  /\ pc' = "get"
  /\ requests' = <<Request("GET", "pending")>>
  /\ ret' = None
  /\ raised' = FALSE
  /\ ran' = <<>>
  /\ UNCHANGED padYear

\* the pending request raises: the except clause ends the call
RequestFails(o) ==
  /\ pc \in {"get", "post"}
  /\ Raises(o)
  /\ requests' = Answered(requests, o)
  /\ pc' = "done"
  /\ LET r == TryExcept(Raised, Failure(op))
     IN  ret' = r.value /\ raised' = r.raises
  /\ UNCHANGED <<op, arg, ran, padYear>>

\* the GET of a search is answered: the hidden inputs are read (soupRaises:
\* an exception while the page is parsed) and the POST is sent
GetArrives(o, soupRaises) ==
  /\ pc = "get"
  /\ op \in {"_search_by_case_number", "_search_by_party_name"}
  /\ ~Raises(o)
  /\ IF soupRaises
     THEN /\ requests' = Answered(requests, o)
          /\ pc' = "done"
          /\ LET r == TryExcept(Raised, Failure(op))
             IN  ret' = r.value /\ raised' = r.raises
     ELSE /\ requests' = Append(Answered(requests, o), Request("POST", "pending"))
          /\ pc' = "post"
          /\ UNCHANGED <<ret, raised>>
  /\ UNCHANGED <<op, arg, ran, padYear>>

\* the page of test_connection arrives
TestPageArrives(o, page) ==
  /\ pc = "get"
  /\ op = "test_connection"
  /\ ~Raises(o)
  /\ requests' = Answered(requests, o)
  /\ pc' = "done"
  /\ arg' = [arg EXCEPT !.page = Some(page)]
  /\ LET r == TryExcept(Returned(Diagnostic(page, o)), Failure(op))
     IN  ret' = r.value /\ raised' = r.raises
  /\ UNCHANGED <<op, ran, padYear>>

\* the POST of a search is answered: _parse_search_results(response.text)
PostArrives(o, page) ==
  /\ pc = "post"
  /\ ~Raises(o)
  /\ requests' = Answered(requests, o)
  /\ pc' = "done"
  /\ arg' = [arg EXCEPT !.page = Some(page)]
  /\ \E p \in {_parse_search_results(page, padYear)} :
       \E r \in {TryExcept(Returned(p.cases), Failure(op))} :
         ret' = r.value /\ raised' = r.raises /\ ran' = p.ran
  /\ UNCHANGED <<op, padYear>>

\* one call of search_cases
SearchCases(cn, pn) ==
  /\ pc = "idle"
  /\ op' = "search_cases"
  /\ pc' = "done"
  /\ arg' = [query |-> cn, party |-> pn]
  /\ LET r == search_cases(cn, pn)
     IN  ret' = r.value /\ raised' = r.raises
  /\ requests' = <<>>
  /\ ran' = <<>>
  /\ UNCHANGED padYear

\* one call of get_case_details
GetCaseDetails(c) ==
  /\ pc = "idle"
  /\ op' = "get_case_details"
  /\ pc' = "done"
  /\ arg' = [query |-> c]
  /\ LET r == get_case_details(c)
     IN  ret' = r.value /\ raised' = r.raises
  /\ requests' = <<>>
  /\ ran' = <<>>
  /\ UNCHANGED padYear

Next ==
  \/ \E q \in SearchQueries : StartSearchByCaseNumber(q)
  \/ \E name \in PartyNames : StartSearchByPartyName(name)
  \/ StartTestConnection
  \/ \E o \in Outcomes : RequestFails(o)
  \/ \E o \in Outcomes, soupRaises \in BOOLEAN : GetArrives(o, soupRaises)
  \/ \E o \in Outcomes, page \in Pages : TestPageArrives(o, page)
  \/ \E o \in Outcomes, page \in Pages : PostArrives(o, page)
  \/ \E cn \in CaseQueries, pn \in PartyQueries : SearchCases(cn, pn)
  \/ \E c \in CaseQueries : GetCaseDetails(c)
  \/ Return

Spec == Init /\ [][Next]_vars

(***************************************************************************)
(* Properties of _parse_search_results (SpecExtract)                       *)
(***************************************************************************)
\* the document of the state contains "captcha" or "verify" in any letter case
DocHasCaptcha ==
  \E w \in CaptchaWords : IsSubstring(w, lower(Render(arg)))

\* the record lists the three strategies give for the document of the state
TableList == TableCases(arg.rows, 1, padYear)
TextList == _extract_from_text(Render(arg))
AttributeList == _extract_from_divs(arg.divs, 1, padYear)

\* C1 as stated: the strategies are tried in the order table, attribute/class,
\* free text; a later one runs only if every earlier one returned no record;
\* the result is the list of the first strategy that returned a record.
C1_OrderTableAttributeText ==
  (op = "_parse_search_results" /\ ~DocHasCaptcha) =>
    /\ ran \in { <<"table">>, <<"table", "attribute">>,
                 <<"table", "attribute", "text">> }
    /\ (Len(ran) >= 2 <=> TableList = <<>>)
    /\ (Len(ran) = 3 <=> (TableList = <<>> /\ AttributeList = <<>>))
    /\ ret = IF TableList # <<>> THEN TableList
             ELSE IF AttributeList # <<>> THEN AttributeList
             ELSE TextList

\* C1 amended: the strategies are tried in the order table, free text,
\* attribute/class; a later one runs only if every earlier one returned no
\* record; the result is the list of the first strategy that returned a record.
C1_OrderTableTextAttribute ==
  (op = "_parse_search_results" /\ ~DocHasCaptcha) =>
    /\ ran \in { <<"table">>, <<"table", "text">>,
                 <<"table", "text", "attribute">> }
    /\ (Len(ran) >= 2 <=> TableList = <<>>)
    /\ (Len(ran) = 3 <=> (TableList = <<>> /\ TextList = <<>>))
    /\ ret = IF TableList # <<>> THEN TableList
             ELSE IF TextList # <<>> THEN TextList
             ELSE AttributeList

\* C1 witness: no table record, and both the free text and an attributed
\* element hold a case number: the free-text records are returned and the
\* attribute strategy is not run
C1_Witness ==
  /\ op = "_parse_search_results"
  /\ ~DocHasCaptcha
  /\ TableList = <<>>
  /\ AttributeList # <<>>
  /\ TextList # <<>>
  /\ ran = <<"table", "text">>
  /\ ret = TextList

\* C2: a document that contains "captcha" or "verify" in any letter case gives
\* the empty list and no strategy is attempted, whatever else it contains.
C2_CaptchaAborts ==
  (op = "_parse_search_results" /\ DocHasCaptcha) => (ret = <<>> /\ ran = <<>>)

\* C2 witness: "Please complete the CAPTCHA" next to a table row that would
\* give a record
C2_Witness ==
  /\ op = "_parse_search_results"
  /\ IsSubstring(<<"C", "A", "P", "T", "C", "H", "A">>, arg.text)
  /\ TableList # <<>>
  /\ ret = <<>>
  /\ ran = <<>>

\* C5: every record of a returned list has a non-empty case_number.
C5_CaseNumberNonEmpty ==
  op = "_parse_search_results" =>
    \A i \in 1..Len(ret) : ret[i].case_number # <<>>

\* C5 witness: the attribute strategy meets an element whose case-number
\* sub-element is empty and makes no record of it
C5_Witness ==
  /\ op = "_parse_search_results"
  /\ ran = <<"table", "text", "attribute">>
  /\ Len(arg.divs) >= 1
  /\ ClassMatches(arg.divs[1].class)
  /\ FindClass(arg.divs[1], "case-number") # None
  /\ FindClass(arg.divs[1], "case-number")[1].text = <<>>
  /\ ret = <<>>

\* C6: no two records of one returned list carry the same case_number.
C6_CaseNumberUnique ==
  op = "_parse_search_results" =>
    \A i \in 1..Len(ret), j \in 1..Len(ret) :
      i # j => ret[i].case_number # ret[j].case_number

(***************************************************************************)
(* Properties of the searches and of test_connection (Spec)                *)
(***************************************************************************)
Searches == {"_search_by_case_number", "_search_by_party_name"}
PublicOperations == Searches \cup {"search_cases", "get_case_details", "test_connection"}

\* the string matches no known-token pattern and no alternative pattern
MatchesNoPattern(t) ==
  /\ \A k \in 1..Len(case_types) : KnownTokenMatch(case_types[k], t) = None
  /\ \A k \in 1..3 : GenericMatch(k, t) = None

\* C3: for a case-number string that matches no pattern, _parse_case_number
\* returns None and _search_by_case_number returns [] without any request.
C3_UnparseableNoRequest ==
  (op = "_search_by_case_number" /\ arg.query.isStr /\ MatchesNoPattern(arg.query.text)) =>
    /\ _parse_case_number(arg.query.text) = None
    /\ pc = "done"
    /\ requests = <<>>
    /\ ret = <<>>
    /\ ~raised

\* C3 witness: "banana"
C3_Witness ==
  /\ op = "_search_by_case_number"
  /\ arg.query = Str(<<"b", "a", "n", "a", "n", "a">>)
  /\ pc = "done"
  /\ requests = <<>>
  /\ ret = <<>>

\* what an operation returns on failure: [] (searches), None
\* (get_case_details), a diagnostic with status "error" (test_connection)
FailureValue ==
  IF op = "test_connection" THEN [status |-> "error"] ELSE <<>>

\* an operation of the state has ended without its regular result: a request
\* whose outcome is in the set bad, a search that ended before its POST, or a
\* query that is no string
Failed(bad) ==
  \/ \E i \in 1..Len(requests) : requests[i].outcome \in bad
  \/ op \in Searches /\ Len(requests) < 2
  \/ op \in {"search_cases", "get_case_details"} /\ ~arg.query.isStr

\* C4 as stated: no public operation lets an exception out, and after a
\* connection error, a non-2xx status, a timeout or a parsing failure a search
\* returns [], get_case_details None, test_connection status "error".
C4_NonSuccessStatusFails ==
  op \in PublicOperations =>
    /\ ~raised
    /\ (pc = "done" /\ Failed({"3xx", "4xx5xx", "connection_error", "timeout"}))
         => ret = FailureValue

\* C4 amended: the same with "4xx or 5xx status" in the place of "non-2xx
\* status": a 3xx response that the session hands back is not a failure.
C4_NoExceptionEscapes ==
  op \in PublicOperations =>
    /\ ~raised
    /\ (pc = "done" /\ Failed({"4xx5xx", "connection_error", "timeout"}))
         => ret = FailureValue

\* C4 witness: test_connection after a timeout returns status "error"
C4_Witness ==
  /\ op = "test_connection"
  /\ pc = "done"
  /\ requests = <<Request("GET", "timeout")>>
  /\ ret = [status |-> "error"]
  /\ ~raised

\* C8: a search issues at most two requests, GET then POST; the POST only
\* after the GET succeeded; no request is repeated; after a failed request
\* there is no further request and the search returns [].
C8_AtMostGetThenPost ==
  op \in Searches =>
    LET failures == {"4xx5xx", "connection_error", "timeout"}
    IN  /\ [i \in 1..Len(requests) |-> requests[i].method]
             \in { <<>>, <<"GET">>, <<"GET", "POST">> }
        /\ Len(requests) = 2 => requests[1].outcome \in {"2xx", "3xx"}
        /\ \A i \in 1..Len(requests) :
             requests[i].outcome \in failures =>
               (i = Len(requests) /\ pc = "done" /\ ret = <<>>)
        /\ \A i \in 1..Len(requests) :
             requests[i].outcome = "pending" =>
               (i = Len(requests) /\ pc = (IF i = 1 THEN "get" ELSE "post"))

\* C8 witness: the GET succeeded, the POST timed out, the search returned []
C8_Witness ==
  /\ op = "_search_by_party_name"
  /\ pc = "done"
  /\ requests = <<Request("GET", "2xx"), Request("POST", "timeout")>>
  /\ ret = <<>>

(***************************************************************************)
(* Properties of get_case_details (Spec)                                   *)
(***************************************************************************)
\* C11: get_case_details(c) returns None for every string c that
\* _parse_case_number cannot parse (such as the empty string), as the
\* case-number search it is said to delegate to returns [] for such a c.
C11_UnparseableGivesNone ==
  (op = "get_case_details" /\ arg.query.isStr
     /\ _parse_case_number(arg.query.text) = None) =>
    ret = None

(***************************************************************************)
(* Properties of _extract_case_from_row (SpecRow)                          *)
(***************************************************************************)
\* the texts of the cells of the row of the state (get_text(strip=True))
CellTexts == [i \in 1..Len(arg) |-> strip(arg[i])]

\* the cells whose text matches the case-number shape, and the first of them
CaseCells == {i \in 1..Len(arg) : HasCaseShape(CellTexts[i])}
FirstCaseCell == CHOOSE i \in CaseCells : \A j \in CaseCells : i <= j

\* the cells whose text matches the date shape
DateCells == {i \in 1..Len(arg) : HasDateShape(CellTexts[i])}

\* the date-shaped cells that reach the date test of the scan: not the cell
\* taken as the case number, and without "petitioner" or "vs" in the text
FreeDateCells ==
  {i \in DateCells : i # FirstCaseCell /\ ~HasWord(CellTexts[i], PartyWords)}

\* the normalised text of the first cell of the set D, None when D is empty
NormalisedFirst(D) ==
  IF D = {} THEN None
  ELSE _parse_date(Some(CellTexts[CHOOSE i \in D : \A j \in D : i <= j]), padYear)

\* what C12 says of a row, with D the cells that count as date-shaped
RowRule(D) ==
  IF CaseCells = {} THEN ret = None
  ELSE /\ Len(ret) = 1
       /\ ret[1].case_number = CellTexts[FirstCaseCell]
       /\ ret[1].filing_date = NormalisedFirst(D)
       /\ ret[1].respondent = NA

\* C12 as stated: a row of at least 3 cells gives one record if some cell
\* matches the case-number shape and none otherwise; case_number is the text
\* of the first matching cell, filing_date the normalised first date-shaped
\* cell, respondent the default marker.
C12_FirstDateShapedCell ==
  (op = "_extract_case_from_row" /\ Len(arg) >= 3) => RowRule(DateCells)

\* C12 amended: the same, with filing_date the normalised first date-shaped
\* cell among the cells that are neither the cell taken as the case number
\* nor a cell whose text contains "petitioner" or "vs".
C12_FirstFreeDateCell ==
  (op = "_extract_case_from_row" /\ Len(arg) >= 3) => RowRule(FreeDateCells)

\* C12 witness: a row with two case-number cells and a date cell gives the
\* record of the first case number with the date normalised
C12_Witness ==
  /\ op = "_extract_case_from_row"
  /\ Len(arg) = 3
  /\ Cardinality(CaseCells) = 2
  /\ DateCells = {3}
  /\ Len(ret) = 1
  /\ ret[1].case_number = CellTexts[FirstCaseCell]
  /\ ret[1].case_number # CellTexts[2]
  /\ ret[1].filing_date = Some(<<"2", "0", "2", "3", "-", "0", "3", "-", "1", "5">>)
  /\ ret[1].respondent = NA

(***************************************************************************)
(* Properties of _extract_case_data (SpecDiv)                              *)
(***************************************************************************)
\* the alias yields text: its sub-element exists and its text is not empty
YieldsText(element, name) ==
  /\ FindClass(element, name) # None
  /\ strip(FindClass(element, name)[1].text) # <<>>

\* the text of the first alias, in the listed order, that yields text
FirstWithText(element, class_names) ==
  LET hits == {k \in 1..Len(class_names) : YieldsText(element, class_names[k])}
  IN  IF hits = {} THEN None
      ELSE Some(strip(FindClass(element,
                  class_names[CHOOSE k \in hits : \A j \in hits : k <= j])[1].text))

\* C13: each field takes the text of the first alias, in the listed order,
\* that yields text, an earlier alias whose sub-element is empty being passed
\* over; a record is produced only if case_number was found this way.
C13_FirstAliasWithText ==
  op = "_extract_case_data" =>
    LET case_number ==
          FirstWithText(arg, <<"case-number", "case_no", "case_number">>)
        petitioner == FirstWithText(arg, <<"petitioner", "petitioner_name">>)
    IN  IF case_number = None THEN ret = None
        ELSE /\ Len(ret) = 1
             /\ ret[1].case_number = case_number[1]
             /\ ret[1].petitioner = OrDefault(petitioner, NA)

====
